---- MODULE Spec2Model ----
(***************************************************************************)
(* SelfMap (src/src/index.ts): a map from the current value of one         *)
(* designated property of each stored object to the object itself.         *)
(*                                                                         *)
(* Objects live on a heap; the container only holds references to them.    *)
(* `values` is the backing array #values (a sequence of references) and    *)
(* `field[r]` is the current value of r[#uniqueProperty] for every object  *)
(* r, stored or not.  JavaScript values are tagged records so that typeof  *)
(* and === can be modelled as the language defines them.                   *)
(***************************************************************************)
EXTENDS Integers, Sequences, FiniteSets

\* Number of distinct objects (references) the client code holds.
NRec == 3

Recs == 1..NRec

-----------------------------------------------------------------------------
\* JavaScript values

Num(s) == [t |-> "number", r |-> 0, v |-> s]
Str(s) == [t |-> "string", r |-> 0, v |-> s]
Undefined == [t |-> "undefined", r |-> 0, v |-> ""]
NaN == Num("NaN")
Obj(x) == [t |-> "object", r |-> x, v |-> ""]
Bool(b) == [t |-> "boolean", r |-> 0, v |-> IF b THEN "true" ELSE "false"]

\* the map itself, as returned by add
This == [t |-> "object", r |-> 0, v |-> "this"]

\* Values the designated property takes (T[K] is any type): the number 1, the
\* string "1" (not === to the number 1), NaN (not === to itself), undefined
\* (the property is missing) and a reference to an object, which may itself
\* be stored in the map, be the record that holds it, or be neither.
KeyVals == {Num("1"), Str("1"), NaN, Undefined, Obj(1)}

\* Arguments of has / delete: a key or an object reference (a reference can
\* be both).
Args == KeyVals \cup {Obj(x) : x \in Recs}

typeof(x) == x.t

\* a === b : same type and same value, except that NaN equals nothing.
StrictEq(a, b) == a = b /\ a # NaN

-----------------------------------------------------------------------------
VARIABLES
    values,   \* #values: sequence of object references
    field,    \* field[r] = r[#uniqueProperty], for every object r
    op,       \* the call the client made last ("idle": none pending)
    arg,      \* its argument
    ret,      \* its return value
    old,      \* #values before the call
    oldKey,   \* for an external assignment: the value the property held before
    itKind,   \* the iterator the client holds: "none", "keys" or "entries"
    itRest    \* the elements of the iterator's array not yet yielded

vars == <<values, field, op, arg, ret, old, oldKey, itKind, itRest>>
iter == <<itKind, itRest>>

-----------------------------------------------------------------------------
\* Array helpers (results are JavaScript indices: 0-based, -1 when absent)

\* ele[this.#uniqueProperty]
prop(fld, ele) == fld[ele]

\* findLastIndex in place of findIndex
findIndexKey_last(vals, fld, key) ==
    IF \E i \in 1..Len(vals) : StrictEq(prop(fld, vals[i]), key)
    THEN (CHOOSE i \in 1..Len(vals) :
            /\ StrictEq(prop(fld, vals[i]), key)
            /\ \A j \in (i + 1)..Len(vals) : ~StrictEq(prop(fld, vals[j]), key)) - 1
    ELSE -1

\* this.#values.findIndex(ele => ele[this.#uniqueProperty] === key)
findIndexKey(vals, fld, key) ==
    IF \E i \in 1..Len(vals) : StrictEq(prop(fld, vals[i]), key)
    THEN (CHOOSE i \in 1..Len(vals) :
            /\ StrictEq(prop(fld, vals[i]), key)
            /\ \A j \in 1..(i - 1) : ~StrictEq(prop(fld, vals[j]), key)) - 1
    ELSE -1

\* this.#values.findIndex(ele => ele === value)
findIndexRef(vals, value) ==
    IF \E i \in 1..Len(vals) : StrictEq(Obj(vals[i]), value)
    THEN (CHOOSE i \in 1..Len(vals) :
            /\ StrictEq(Obj(vals[i]), value)
            /\ \A j \in 1..(i - 1) : ~StrictEq(Obj(vals[j]), value)) - 1
    ELSE -1

\* the elements of the array after this.#values[index] = value: index -1
\* names no element (the assignment creates the property "-1", which length,
\* findIndex, some, map, splice and iteration never see)
arraySet(vals, index, value) ==
    IF index = -1 THEN vals ELSE [vals EXCEPT ![index + 1] = value]

\* the array after this.#values.splice(index, 1), index >= 0
splice(vals, index) ==
    [i \in 1..(Len(vals) - 1) |-> IF i <= index THEN vals[i] ELSE vals[i + 1]]

-----------------------------------------------------------------------------
\* Methods of SelfMap as functions of the backing array and the heap

size(vals) == Len(vals)

isKey(value) == typeof(value) = "string" \/ typeof(value) = "number"

has(vals, fld, keyOrValue) ==
    IF isKey(keyOrValue)
    THEN \E i \in 1..Len(vals) : StrictEq(prop(fld, vals[i]), keyOrValue)
    ELSE \E i \in 1..Len(vals) : StrictEq(Obj(vals[i]), keyOrValue)

\* add without the reference check of line 105
add_noRefCheck(vals, fld, value) ==
    IF has(vals, fld, prop(fld, value))
    THEN arraySet(vals, findIndexKey(vals, fld, prop(fld, value)), value)
    ELSE Append(vals, value)

\* #values after add(value)
add(vals, fld, value) ==
    IF ~has(vals, fld, Obj(value))
    THEN IF has(vals, fld, prop(fld, value))
         THEN arraySet(vals, findIndexKey(vals, fld, prop(fld, value)), value)
         ELSE Append(vals, value)
    ELSE vals

\* get that keeps scanning and returns the last match
get_last(vals, fld, key) ==
    IF \E i \in 1..Len(vals) : StrictEq(prop(fld, vals[i]), key)
    THEN Obj(vals[CHOOSE i \in 1..Len(vals) :
            /\ StrictEq(prop(fld, vals[i]), key)
            /\ \A j \in (i + 1)..Len(vals) : ~StrictEq(prop(fld, vals[j]), key)])
    ELSE Undefined

get(vals, fld, key) ==
    IF \E i \in 1..Len(vals) : StrictEq(prop(fld, vals[i]), key)
    THEN Obj(vals[CHOOSE i \in 1..Len(vals) :
            /\ StrictEq(prop(fld, vals[i]), key)
            /\ \A j \in 1..(i - 1) : ~StrictEq(prop(fld, vals[j]), key)])
    ELSE Undefined

\* index computed by delete (lines 174-179)
deleteIndex(vals, fld, keyOrValue) ==
    IF isKey(keyOrValue)
    THEN findIndexKey(vals, fld, keyOrValue)
    ELSE findIndexRef(vals, keyOrValue)

\* delete without the early return of line 182: splice(-1, 1) drops the last element
deleteValues_noCheck(vals, fld, keyOrValue) ==
    IF deleteIndex(vals, fld, keyOrValue) = -1
    THEN SubSeq(vals, 1, Len(vals) - 1)
    ELSE splice(vals, deleteIndex(vals, fld, keyOrValue))

\* #values after delete(keyOrValue)
deleteValues(vals, fld, keyOrValue) ==
    IF deleteIndex(vals, fld, keyOrValue) = -1
    THEN vals
    ELSE splice(vals, deleteIndex(vals, fld, keyOrValue))

\* value returned by delete(keyOrValue)
deleteReturn(vals, fld, keyOrValue) ==
    IF deleteIndex(vals, fld, keyOrValue) = -1
    THEN Undefined
    ELSE IF isKey(keyOrValue)
         THEN Obj(vals[deleteIndex(vals, fld, keyOrValue) + 1])
         ELSE prop(fld, vals[deleteIndex(vals, fld, keyOrValue) + 1])

\* this.#values.map(ele => ele[this.#uniqueProperty])
keys(vals, fld) == [i \in 1..Len(vals) |-> prop(fld, vals[i])]

\* this.#values.map(ele => [ele[this.#uniqueProperty], ele])
entries(vals, fld) == [i \in 1..Len(vals) |-> [key |-> prop(fld, vals[i]), ele |-> vals[i]]]


-----------------------------------------------------------------------------
\* Arrays of references in which no reference occurs twice
RECURSIVE ArraysOfLen(_)
ArraysOfLen(n) ==
    IF n = 0 THEN {<<>>}
    ELSE {Append(s, x) : s \in ArraysOfLen(n - 1), x \in Recs} \ 
         {q \in {Append(s, x) : s \in ArraysOfLen(n - 1), x \in Recs} :
            \E i \in 1..(n - 1) : q[i] = q[n]}

Arrays == UNION {ArraysOfLen(n) : n \in 0..NRec}

\* new SelfMap(objects, uniqueProperty): the array is stored as given and
\* nothing is validated; the client has made no call yet.
Init ==
    /\ values \in Arrays
    /\ field \in [Recs -> KeyVals]
    /\ op = "idle"
    /\ arg = Undefined
    /\ ret = Undefined
    /\ old = values
    /\ oldKey = Undefined
    /\ itKind = "none"
    /\ itRest = <<>>

\* The calls are synchronous: the client makes one call at a time and looks
\* at its result (op, arg, ret, old) before it goes on.
Has(x) ==
    /\ op = "idle"
    /\ op' = "has"
    /\ arg' = x
    /\ ret' = Bool(has(values, field, x))
    /\ old' = values
    /\ oldKey' = Undefined
    /\ UNCHANGED <<values, field, iter>>

Add(x) ==
    /\ op = "idle"
    /\ values' = add(values, field, x)
    /\ op' = "add"
    /\ arg' = Obj(x)
    /\ ret' = This
    /\ old' = values
    /\ oldKey' = Undefined
    /\ UNCHANGED <<field, iter>>

Get(k) ==
    /\ op = "idle"
    /\ op' = "get"
    /\ arg' = k
    /\ ret' = get(values, field, k)
    /\ old' = values
    /\ oldKey' = Undefined
    /\ UNCHANGED <<values, field, iter>>

Delete(x) ==
    /\ op = "idle"
    /\ values' = deleteValues(values, field, x)
    /\ op' = "delete"
    /\ arg' = x
    /\ ret' = deleteReturn(values, field, x)
    /\ old' = values
    /\ oldKey' = Undefined
    /\ UNCHANGED <<field, iter>>

Clear ==
    /\ op = "idle"
    /\ values' = <<>>
    /\ op' = "clear"
    /\ arg' = Undefined
    /\ ret' = Undefined
    /\ old' = values
    /\ oldKey' = Undefined
    /\ UNCHANGED <<field, iter>>

\* client code assigns x[uniqueProperty] = newValue (README: sara.id = 4)
Assign(x, newValue) ==
    /\ op = "idle"
    /\ field' = [field EXCEPT ![x] = newValue]
    /\ op' = "assign"
    /\ arg' = Obj(x)
    /\ ret' = Undefined
    /\ old' = values
    /\ oldKey' = field[x]
    /\ UNCHANGED <<values, iter>>

\* keys(): an iterator over a fresh array of the current keys.  `ele` notes
\* the object each key was read from; the iterator yields the key alone.
Keys ==
    /\ op = "idle"
    /\ itKind = "none"
    /\ itKind' = "keys"
    /\ itRest' = [i \in 1..Len(values) |->
                    [key |-> keys(values, field)[i], ele |-> values[i]]]
    /\ op' = "keys"
    /\ arg' = Undefined
    /\ ret' = Undefined
    /\ old' = values
    /\ oldKey' = Undefined
    /\ UNCHANGED <<values, field>>

\* entries(), also [Symbol.iterator](): an iterator over a fresh array of
\* [key, object] pairs.
Entries ==
    /\ op = "idle"
    /\ itKind = "none"
    /\ itKind' = "entries"
    /\ itRest' = entries(values, field)
    /\ op' = "entries"
    /\ arg' = Undefined
    /\ ret' = Undefined
    /\ old' = values
    /\ oldKey' = Undefined
    /\ UNCHANGED <<values, field>>

\* next() on the iterator held: yields the next element of its array (ret is
\* the key, arg the object it belongs to), or reports done and is dropped.
IterNext ==
    /\ op = "idle"
    /\ itKind # "none"
    /\ IF itRest # <<>>
       THEN /\ ret' = Head(itRest).key
            /\ arg' = Obj(Head(itRest).ele)
            /\ itRest' = Tail(itRest)
            /\ itKind' = itKind
       ELSE /\ ret' = Undefined
            /\ arg' = Undefined
            /\ itRest' = <<>>
            /\ itKind' = "none"
    /\ op' = "next"
    /\ old' = values
    /\ oldKey' = Undefined
    /\ UNCHANGED <<values, field>>

\* the client is done with the result of its last call
Continue ==
    /\ op # "idle"
    /\ op' = "idle"
    /\ arg' = Undefined
    /\ ret' = Undefined
    /\ old' = values
    /\ oldKey' = Undefined
    /\ UNCHANGED <<values, field, iter>>

Next ==
    \/ \E x \in Args : Has(x)
    \/ \E x \in Recs : Add(x)
    \/ \E k \in KeyVals : Get(k)
    \/ \E x \in Args : Delete(x)
    \/ Clear
    \/ \E x \in Recs, k \in KeyVals : Assign(x, k)
    \/ Continue

Spec == Init /\ [][Next]_vars

\* The container's own operations only: no assignment from outside.
NextApi ==
    \/ \E x \in Args : Has(x)
    \/ \E x \in Recs : Add(x)
    \/ \E k \in KeyVals : Get(k)
    \/ \E x \in Args : Delete(x)
    \/ Clear
    \/ Continue

\* constructed over objects whose keys are pairwise different
InitUniq ==
    /\ Init
    /\ \A i, j \in 1..Len(values) :
          i # j => ~StrictEq(prop(field, values[i]), prop(field, values[j]))

SpecUniq == InitUniq /\ [][NextApi]_vars

\* Iteration while client code assigns to the objects.
NextIter ==
    \/ Keys
    \/ Entries
    \/ IterNext
    \/ \E x \in Recs, k \in KeyVals : Assign(x, k)
    \/ Continue

SpecIter == Init /\ [][NextIter]_vars

-----------------------------------------------------------------------------
\* Vocabulary of the properties

\* object x is in the array, by reference
Stored(vals, x) == \E i \in 1..Len(vals) : vals[i] = x

\* some object of the array currently has key k
HasKey(vals, k) == \E i \in 1..Len(vals) : StrictEq(field[vals[i]], k)

\* after is before with the element at position i taken out
RemovedAt(before, after, i) ==
    /\ Len(after) = Len(before) - 1
    /\ \A j \in 1..(i - 1) : after[j] = before[j]
    /\ \A j \in i..Len(after) : after[j] = before[j + 1]

\* position i of the array the last call ran on holds a record whose key is
\* the argument
MatchesKey(i) == StrictEq(field[old[i]], arg)

\* the argument of the last call, a delete, selects position i of the array
\* it ran on: by reference for an object, by key otherwise
Matches(i) ==
    IF typeof(arg) = "object" THEN old[i] = arg.r ELSE MatchesKey(i)

\* the last step was an assignment to the key of a stored object
AssignedStored == op = "assign" /\ Stored(values, arg.r)

-----------------------------------------------------------------------------
\* C1 (as stated): after r.f = newValue for a stored record r, get(newValue)
\* returns r and get(oldValue) returns not-found.  Stated here for the plain
\* case only: newValue is not the value the field held and is not NaN.
C1_LiveKey ==
    (AssignedStored /\ field[arg.r] # oldKey /\ field[arg.r] # NaN) =>
        /\ get(values, field, field[arg.r]) = arg
        /\ get(values, field, oldKey) = Undefined

\* C1 (amended): after r.f = newValue for a stored record r, get(newValue)
\* returns r when newValue is not NaN and no record stored before r has key
\* newValue; get(oldValue) returns not-found when newValue is not oldValue
\* and no other stored record has key oldValue.
C1_LiveKeyFirstMatch ==
    AssignedStored =>
        /\ ( /\ field[arg.r] # NaN
             /\ \A i \in 1..Len(values) :
                   StrictEq(field[values[i]], field[arg.r]) =>
                       \E j \in 1..i : values[j] = arg.r )
           => get(values, field, field[arg.r]) = arg
        /\ ( /\ field[arg.r] # oldKey
             /\ \A i \in 1..Len(values) :
                   values[i] # arg.r => ~StrictEq(field[values[i]], oldKey) )
           => get(values, field, oldKey) = Undefined

\* a stored record, not the first of three, was given a key no other record
\* has, and is now found under the new key and not under the old one
C1_Witness ==
    /\ AssignedStored
    /\ Len(values) = 3
    /\ values[1] # arg.r
    /\ field[arg.r] # oldKey
    /\ oldKey # NaN
    /\ get(values, field, field[arg.r]) = arg
    /\ get(values, field, oldKey) = Undefined

\* C2: add(B), B not stored, while a stored record A has B's key: B takes A's
\* position, every other position and the size are unchanged, B is not appended.
C2_UpsertOnCollision ==
    (op = "add" /\ ~Stored(old, arg.r) /\ HasKey(old, field[arg.r])) =>
        /\ Len(values) = Len(old)
        /\ \E i \in 1..Len(old) :
              /\ StrictEq(field[old[i]], field[arg.r])
              /\ values = [old EXCEPT ![i] = arg.r]

\* C3: with pairwise different keys at construction and no assignment from
\* outside, no two stored records ever have the same key.
C3_KeyUniqueness ==
    \A i, j \in 1..Len(values) :
        i # j => ~StrictEq(field[values[i]], field[values[j]])

\* C4: delete(k), k the key of a stored record (and not itself a stored
\* record), removes a record with key k and returns it; delete(r), r stored,
\* removes r and returns r's key.
C4_DeleteDualReturn ==
    op = "delete" =>
        /\ (HasKey(old, arg) /\ ~(typeof(arg) = "object" /\ Stored(old, arg.r))) =>
              /\ typeof(ret) = "object"
              /\ \E i \in 1..Len(old) :
                    /\ old[i] = ret.r
                    /\ StrictEq(field[old[i]], arg)
                    /\ RemovedAt(old, values, i)
        /\ (typeof(arg) = "object" /\ Stored(old, arg.r)) =>
              /\ ret = field[arg.r]
              /\ \E i \in 1..Len(old) : old[i] = arg.r /\ RemovedAt(old, values, i)

\* C5: get(k) and delete(k) for a key no stored record has, and delete(r) for
\* a record that is not stored, return undefined and leave the array as it was.
\* (An object handed to delete is a record argument; one that is stored is
\* deleted, whether or not it is also some record's key.)
C5_NotFound ==
    /\ (op = "get" /\ ~HasKey(old, arg)) => (ret = Undefined /\ values = old)
    /\ (op = "delete" /\ typeof(arg) # "object" /\ ~HasKey(old, arg))
          => (ret = Undefined /\ values = old)
    /\ (op = "delete" /\ typeof(arg) = "object" /\ ~Stored(old, arg.r))
          => (ret = Undefined /\ values = old)

\* delete of a number no record has as key, on an array of three records
C5_Witness ==
    /\ op = "delete"
    /\ typeof(arg) = "number"
    /\ ~HasKey(old, arg)
    /\ Len(old) = 3
    /\ ret = Undefined
    /\ values = old

\* C6: has(k) is true iff some stored record has key k, and agrees with get(k)
\* finding a record; has(r) is true iff r is stored by reference; has(r) is
\* true right after add(r).
C6_Has ==
    /\ (op = "has" /\ typeof(arg) # "object") =>
          /\ ret = Bool(HasKey(values, arg))
          /\ (ret = Bool(TRUE)) <=> (get(values, field, arg) # Undefined)
    /\ (op = "has" /\ typeof(arg) = "object") => ret = Bool(Stored(values, arg.r))
    /\ op = "add" => has(values, field, arg)

\* C7: a second add(r) right after add(r) leaves the array as the first left it.
C7_AddIdempotent ==
    op = "add" => add(values, field, arg.r) = values

\* the first add(r) appended r to a non-empty array
C7_Witness ==
    /\ op = "add"
    /\ Len(old) >= 1
    /\ values = Append(old, arg.r)

\* C8: the key an iterator of keys() or entries() yields is the record's
\* key at the moment it is yielded.
C8_KeysAtYield ==
    (op = "next" /\ typeof(arg) = "object") => ret = field[arg.r]

\* C9: a delete that removes something removes exactly the first element that
\* matches its argument and keeps the others in order; a delete that returns
\* something has removed an element; get(k) returns the first record with key k.
C9_FirstMatch ==
    /\ (op = "delete" /\ (values # old \/ ret # Undefined)) =>
          \E i \in 1..Len(old) :
              /\ Matches(i)
              /\ \A j \in 1..(i - 1) : ~Matches(j)
              /\ RemovedAt(old, values, i)
    /\ (op = "get" /\ HasKey(old, arg)) =>
          \E i \in 1..Len(old) :
              /\ MatchesKey(i)
              /\ \A j \in 1..(i - 1) : ~MatchesKey(j)
              /\ ret = Obj(old[i])

\* delete(k) on three records, two of which had key k: the first of them is
\* returned and the second is still stored
C9_Witness ==
    /\ op = "delete"
    /\ typeof(arg) # "object"
    /\ Len(old) = 3
    /\ Len(values) = 2
    /\ typeof(ret) = "object"
    /\ HasKey(values, arg)

\* C10: with no reference twice in the constructor's array, no reference is
\* ever stored at two positions, so size is the number of stored records.
C10_NoDuplicateReference ==
    /\ \A i, j \in 1..Len(values) : i # j => values[i] # values[j]
    /\ size(values) = Cardinality({values[i] : i \in 1..Len(values)})

\* an add has changed an array in which two records share a key
C10_Witness ==
    /\ op = "add"
    /\ values # old
    /\ \E i, j \in 1..Len(values) :
          i # j /\ StrictEq(field[values[i]], field[values[j]])

====
